---- MODULE Spec2Model ----
(***************************************************************************)
(* Model of the provider unification layer of src/core/model_providers:    *)
(* the retry/metrics wrapper BaseModelProvider.chat / chat_stream and the  *)
(* streaming decoders of the OpenAI, Claude and Dify adapters.             *)
(*                                                                         *)
(* Time is counted in whole seconds (time.time()); one Tick is one second. *)
(* Code between two awaits runs atomically on the asyncio event loop, so   *)
(* every action below is the code between two suspension points.           *)
(***************************************************************************)
EXTENDS Integers, Sequences, FiniteSets, TLC

\* ---------------------------------------------------------------- bounds
MaxRetriesBound == 2      \* config.max_retries is explored in 0..MaxRetriesBound
MaxTime == 5              \* the clock stops advancing here
MaxEvents == 3            \* upstream events delivered to one streaming call
MaxCalls == 2             \* calls one caller makes one after the other

\* callers that each issue one call on the adapter; they interleave at awaits
Tasks == {1}
\* config.retry_delay values explored, in seconds (schema: 0.1 <= d <= 10)
RetryDelays == {1, 2}
\* usage.total_tokens reported by a successful upstream response
TokenTotals == {0, 7}

None == "None"

\* ---------------------------------------------------------------- helpers
RECURSIVE GCD(_, _)
Min(a, b) == IF a <= b THEN a ELSE b

GCD(a, b) == IF b = 0 THEN a ELSE GCD(b, a % b)

\* a float is modelled as the exact rational it stands for, in lowest terms
Rat(n, d) == LET g == GCD(n, d) IN IF g = 0 THEN [num |-> 0, den |-> 1]
                                   ELSE [num |-> n \div g, den |-> d \div g]

\* ---------------------------------------------------------------- state
VARIABLES
    provider,   \* which BaseModelProvider subclass the adapter instance is
    config,     \* BaseProviderConfig: max_retries, retry_delay
    metrics,    \* self.metrics (ProviderMetrics)
    now,        \* time.time()
    task,       \* per caller: the position and locals of its chat/chat_stream call
    snapshot,   \* the value a caller got from get_metrics and still holds
    latencies,  \* latencies of the successes counted in self.metrics (history)
    wire,       \* a request and the wire payload an adapter built from it
    registry,   \* provider_registry: _providers and _config_classes
    creation    \* the last register / create_provider call and how far it got

\* what a call on an adapter never touches
others == <<snapshot, wire, registry, creation>>

vars == <<provider, config, metrics, now, task, snapshot, latencies, wire, registry, creation>>

\* "generic" stands for any other subclass: its call paths are unconstrained.
\* The call paths of the three shipped adapters are modelled as the methods are
\* written; the construction of an instance (__init__) is not part of this state.
ProviderKinds == {"generic", "openai", "claude", "dify"}
ConcreteKinds == {"openai", "claude", "dify"}

\* ProviderMetrics(provider=..., model=...) with its field defaults
NewMetrics == [request_count |-> 0, success_count |-> 0, error_count |-> 0,
               avg_latency_ms |-> Rat(0, 1), total_tokens |-> 0]

\* self.metrics after an earlier successful chat (1000 ms, 7 tokens) and an
\* earlier failed chat_stream on this adapter
PriorMetrics == [request_count |-> 2, success_count |-> 1, error_count |-> 1,
                 avg_latency_ms |-> Rat(1000, 1), total_tokens |-> 7]

NewTask == [op |-> "none", pc |-> "idle",
            start_time |-> 0, attempt |-> 0, last_error |-> None, sleep_until |-> 0,
            response |-> <<>>, error |-> <<>>,
            \* history of the call, kept for the properties
            calls |-> 0, failed |-> 0, attempt_start |-> 0, failed_at |-> 0, end_time |-> 0,
            sleeps |-> <<>>, events |-> <<>>, produced |-> <<>>, yielded |-> <<>>,
            swallowed |-> 0, round |-> 1, requests |-> 0,
            d |-> [req |-> 0, succ |-> 0, err |-> 0]]

\* nobody holds a snapshot; no payload was built; nothing was registered
NoSnapshot == [held |-> FALSE, live |-> FALSE, value |-> NewMetrics,
               taken |-> NewMetrics, modified |-> FALSE, resets |-> 0]
NoWire == [built |-> FALSE]
NoRegistry == [providers |-> <<>>, config_classes |-> <<>>]
NoCreation == [op |-> "none"]

Init ==
    /\ provider \in ProviderKinds
    /\ config \in [max_retries : 0..MaxRetriesBound, retry_delay : RetryDelays]
    /\ metrics \in {NewMetrics, PriorMetrics}
    /\ now = 0
    /\ task = [t \in Tasks |-> NewTask]
    /\ snapshot = NoSnapshot
    /\ latencies = IF metrics.success_count = 0 THEN <<>> ELSE <<1000>>
    /\ wire = NoWire
    /\ registry = NoRegistry
    /\ creation = NoCreation

\* what this step of a task added to the three counters of self.metrics
Delta(t, m) == [req  |-> task[t].d.req  + (m.request_count - metrics.request_count),
                succ |-> task[t].d.succ + (m.success_count - metrics.success_count),
                err  |-> task[t].d.err  + (m.error_count - metrics.error_count)]

\* ---------------------------------------------------------------- errors
ErrorKinds == {"transport", "validation"}

ProviderError(error_code, cause, is_retryable) ==
    [error_code |-> error_code, cause |-> cause, is_retryable |-> is_retryable]

MaxRetriesExceeded(last_error) == ProviderError("MAX_RETRIES_EXCEEDED", last_error, FALSE)

\* a stream error flagged as not retryable
StreamErrorNotRetryable(e) == ProviderError("STREAM_ERROR", e, FALSE)

StreamError(e) == ProviderError("STREAM_ERROR", e, TRUE)

\* ---------------------------------------------------------------- metrics updates
MsPerSecond == 1000

LatencyMs(start_time) == (now - start_time) * MsPerSecond

\* a count written back from the value read when the adapter was new
RequestCountedStale(m) == [m EXCEPT !.request_count = 1]

RequestCounted(m) == [m EXCEPT !.request_count = @ + 1]

\* a failure that is not counted
ErrorNotCounted(m) == m

ErrorCounted(m) == [m EXCEPT !.error_count = @ + 1]

\* a running average that weighs the old average and the new latency equally
FoldLatencyEqually(m, latency_ms) ==
    LET a == m.avg_latency_ms
    IN  [m EXCEPT !.success_count = @ + 1,
                  !.avg_latency_ms = Rat(a.num + latency_ms * a.den, a.den * 2)]

FoldLatency(m, latency_ms) ==
    LET n == m.success_count + 1
        a == m.avg_latency_ms
    IN  [m EXCEPT !.success_count = n,
                  !.avg_latency_ms = Rat(a.num * (n - 1) + latency_ms * a.den, a.den * n)]

ChatSucceeded(m, latency_ms, total_tokens) ==
    [FoldLatency(m, latency_ms) EXCEPT !.total_tokens = @ + total_tokens]

\* ---------------------------------------------------------------- scheduling
\* a backoff wait that keeps the event loop to itself, as time.sleep would
BlockedBySleep(t) == \E u \in DOMAIN task : u # t /\ task[u].pc = "sleep"

\* whether another call's backoff wait keeps task t from running:
\* await asyncio.sleep(...) suspends the waiting call alone
Blocked(t) == FALSE

\* ---------------------------------------------------------------- chat
\* a loop that allows one attempt too many
AttemptsRemainOffByOne(attempt) == attempt <= config.max_retries

AttemptsRemain(attempt) == attempt < config.max_retries

\* a constant backoff
BackoffDelayConstant(attempt) == config.retry_delay

BackoffDelay(attempt) == config.retry_delay * (attempt + 1)

\* the retries the adapter's network client makes by itself inside one call:
\* AsyncOpenAI(..., max_retries=self.openai_config.max_retries) re-sends a
\* request that failed in transport; the httpx.AsyncClient of the Claude and
\* Dify adapters is built without a retrying transport
ClientMaxRetries(kind) == IF kind = "openai" THEN config.max_retries ELSE 0

\* the upstream requests one awaited call of the client issues: one, plus one
\* per retry; a call that fails in transport has used up every retry
UpstreamRequests(kind, outcome) ==
    IF outcome = "transport" THEN {1 + ClientMaxRetries(kind)}
    ELSE 1..(1 + ClientMaxRetries(kind))

\* chat() up to its suspension in the first await self._call_api(request)
ChatStart(t) ==
    /\ task[t].pc = "idle"
    /\ ~Blocked(t)
    /\ LET m == RequestCounted(metrics) IN
       /\ metrics' = m
       /\ task' = [task EXCEPT ![t] = [@ EXCEPT !.op = "chat", !.pc = "call_api",
                                          !.start_time = now, !.attempt = 0,
                                          !.calls = 1, !.attempt_start = now,
                                          !.d = Delta(t, m)]]
    /\ latencies' = latencies
    /\ UNCHANGED <<provider, config, now, others>>

\* _call_api returned a response: the success branch of the loop body
ChatAttemptOk(t) ==
    /\ task[t].pc = "call_api"
    /\ ~Blocked(t)
    /\ \E total_tokens \in TokenTotals, n \in UpstreamRequests(provider, "ok") :
         LET latency_ms == LatencyMs(task[t].start_time)
             m == ChatSucceeded(metrics, latency_ms, total_tokens)
         IN  /\ metrics' = m
             /\ task' = [task EXCEPT ![t] = [@ EXCEPT
                            !.pc = "returned",
                            !.requests = @ + n,
                            !.response = <<[latency_ms |-> latency_ms,
                                            total_tokens |-> total_tokens]>>,
                            !.end_time = now,
                            !.d = Delta(t, m)]]
             /\ latencies' = Append(latencies, latency_ms)
    /\ UNCHANGED <<provider, config, now, others>>

\* _call_api raised: the except branch, up to the sleep or the final raise
ChatAttemptFail(t) ==
    /\ task[t].pc = "call_api"
    /\ ~Blocked(t)
    /\ \E e \in ErrorKinds : \E n \in UpstreamRequests(provider, e) :
         LET m == ErrorCounted(metrics) IN
         /\ metrics' = m
         /\ IF AttemptsRemain(task[t].attempt)
            THEN task' = [task EXCEPT ![t] = [@ EXCEPT
                            !.pc = "sleep", !.last_error = e,
                            !.requests = @ + n,
                            !.failed = @ + 1, !.failed_at = now,
                            !.sleep_until = now + BackoffDelay(task[t].attempt),
                            !.sleeps = Append(@, BackoffDelay(task[t].attempt)),
                            !.d = Delta(t, m)]]
            ELSE task' = [task EXCEPT ![t] = [@ EXCEPT
                            !.pc = "raised", !.last_error = e,
                            !.requests = @ + n,
                            !.failed = @ + 1, !.failed_at = now,
                            !.error = <<MaxRetriesExceeded(e)>>,
                            !.end_time = now,
                            !.d = Delta(t, m)]]
    /\ latencies' = latencies
    /\ UNCHANGED <<provider, config, now, others>>

\* asyncio.sleep is over: continue with the next attempt
ChatWake(t) ==
    /\ task[t].pc = "sleep"
    /\ now >= task[t].sleep_until
    /\ task' = [task EXCEPT ![t] = [@ EXCEPT !.pc = "call_api",
                                       !.attempt = @ + 1,
                                       !.calls = @ + 1,
                                       !.attempt_start = now]]
    /\ UNCHANGED <<provider, config, metrics, now, latencies, others>>

\* ---------------------------------------------------------------- fragments
\* fields of UnifiedStreamResponse declared Field(...): required at construction
StreamRequired == {"id", "delta", "content", "model", "provider"}

\* the keyword arguments every adapter passes to UnifiedStreamResponse(...)
AdapterKeywords == {"id", "delta", "model", "provider", "finish_reason"}

\* pydantic construction: ok, or a ValidationError when a required field is missing
UnifiedStreamResponse(keywords, delta, finish_reason) ==
    [ok |-> StreamRequired \subseteq keywords, delta |-> delta, finish_reason |-> finish_reason]

Fragment(delta, finish_reason) == [delta |-> delta, finish_reason |-> finish_reason]

\* ---------------------------------------------------------------- upstream events
Event(type, text, finish) == [type |-> type, text |-> text, finish |-> finish]

\* what the upstream can deliver next to the streaming call path of each adapter:
\*   generic: a fragment the subclass's own call path produces;
\*   openai:  a ChatCompletionChunk (without choices, or with delta.content and
\*            finish_reason of its first choice);
\*   claude, dify: one line of the SSE body
Events(kind) ==
    CASE kind = "generic" ->
           {Event("fragment", x, f) : x \in {"", "a"}, f \in {None, "stop"}}
      [] kind = "openai" ->
           {Event("chunk", x, f) : x \in {"", "a"}, f \in {None, "stop"}}
           \cup {Event("no_choices", "", None)}
      [] kind = "claude" ->
           {Event("content_block_delta", x, None) : x \in {"", "a"}}
           \cup {Event(y, "", None) : y \in {"no_prefix", "bad_json", "message_start", "message_stop"}}
      [] kind = "dify" ->
           {Event(y, "a", None) : y \in {"message", "message_delta"}}
           \cup {Event(y, "", None) : y \in {"no_prefix", "bad_json", "done", "ping", "message_end"}}

\* ---------------------------------------------------------------- stream decoders
\* the result of one iteration of an adapter's loop over the upstream events
Yield(r) == [act |-> "yield", frag |-> Fragment(r.delta, r.finish_reason), error |-> None]
Skip == [act |-> "skip", frag |-> Fragment("", None), error |-> None]
Break == [act |-> "break", frag |-> Fragment("", None), error |-> None]
Raise == [act |-> "raise", frag |-> Fragment("", None), error |-> "validation"]
\* except Exception: continue -- the error raised while the event was
\* processed is dropped and the loop goes on to the next line
Continue(error) == [act |-> "skip", frag |-> Fragment("", None), error |-> error]

\* yield UnifiedStreamResponse(...) with no handler around it
YieldOrRaise(r) == IF r.ok THEN Yield(r) ELSE Raise

\* the same inside try: ... except Exception: continue
YieldOrContinue(r) == IF r.ok THEN Yield(r) ELSE Continue("validation")

GenericCallStreamApi(e) == Yield([delta |-> e.text, finish_reason |-> e.finish])

OpenAICallStreamApi(e) ==
    IF e.type = "chunk" /\ e.text # ""
    THEN YieldOrRaise(UnifiedStreamResponse(AdapterKeywords, e.text, e.finish))
    ELSE Skip

ClaudeCallStreamApi(e) ==
    IF e.type = "no_prefix" THEN Skip
    ELSE IF e.type = "bad_json" THEN Skip
    ELSE IF e.type = "content_block_delta"
         THEN IF e.text # ""
              THEN YieldOrContinue(UnifiedStreamResponse(AdapterKeywords, e.text, None))
              ELSE Skip
    ELSE IF e.type = "message_stop"
         THEN YieldOrContinue(UnifiedStreamResponse(AdapterKeywords, "", "stop"))
    ELSE Skip

DifyCallStreamApi(e) ==
    IF e.type = "no_prefix" THEN Skip
    ELSE IF e.type = "done" THEN Break
    ELSE IF e.type = "bad_json" THEN Skip
    ELSE IF e.type = "message"
         THEN YieldOrContinue(UnifiedStreamResponse(AdapterKeywords, e.text, "stop"))
    ELSE IF e.type = "message_delta"
         THEN YieldOrContinue(UnifiedStreamResponse(AdapterKeywords, e.text, None))
    ELSE IF e.type = "message_end"
         THEN YieldOrContinue(UnifiedStreamResponse(AdapterKeywords, "", "stop"))
    ELSE Skip

CallStreamApi(kind, e) ==
    CASE kind = "generic" -> GenericCallStreamApi(e)
      [] kind = "openai" -> OpenAICallStreamApi(e)
      [] kind = "claude" -> ClaudeCallStreamApi(e)
      [] kind = "dify" -> DifyCallStreamApi(e)

\* ---------------------------------------------------------------- chat_stream
\* async for response in self._call_stream_api(request): yield response
\* a wrapper that marks what it passes on as final
ReYieldStamped(frag) == [frag EXCEPT !.finish_reason = "stop"]

ReYield(frag) == frag

\* a stream success that also counts tokens
StreamSucceededWithTokens(m, latency_ms) == ChatSucceeded(m, latency_ms, 7)

StreamSucceeded(m, latency_ms) == FoldLatency(m, latency_ms)

\* except Exception: what the handler of chat_stream catches
\* except BaseException: a handler that also catches GeneratorExit
CaughtBaseException(exc) == TRUE

Caught(exc) == exc \in ErrorKinds

\* the success path after the call path is exhausted
StreamExhausted(t, log) ==
    LET m == StreamSucceeded(metrics, LatencyMs(task[t].start_time)) IN
    /\ metrics' = m
    /\ task' = [task EXCEPT ![t] = [@ EXCEPT !.pc = "exhausted", !.events = log,
                                       !.end_time = now, !.d = Delta(t, m)]]
    /\ latencies' = Append(latencies, LatencyMs(task[t].start_time))

\* exc is raised inside the try block of chat_stream
StreamRaised(t, exc, log) ==
    /\ latencies' = latencies
    /\ IF Caught(exc)
       THEN LET m == ErrorCounted(metrics) IN
            /\ metrics' = m
            /\ task' = [task EXCEPT ![t] = [@ EXCEPT !.pc = "raised", !.events = log,
                                               !.last_error = exc,
                                               !.error = <<StreamError(exc)>>,
                                               !.end_time = now, !.d = Delta(t, m)]]
       ELSE /\ metrics' = metrics
            /\ task' = [task EXCEPT ![t] = [@ EXCEPT !.pc = "closed", !.events = log,
                                               !.last_error = exc, !.end_time = now]]

\* the first __anext__: chat_stream up to its suspension inside the call path
StreamStart(t) ==
    /\ task[t].pc = "idle"
    /\ ~Blocked(t)
    /\ LET m == RequestCounted(metrics) IN
       /\ metrics' = m
       /\ task' = [task EXCEPT ![t] = [@ EXCEPT !.op = "chat_stream", !.pc = "iterating",
                                          !.start_time = now, !.calls = 1,
                                          !.attempt_start = now, !.d = Delta(t, m)]]
    /\ latencies' = latencies
    /\ UNCHANGED <<provider, config, now, others>>

\* the upstream delivers one event; the call path decodes it and the wrapper
\* re-yields what it produces
StreamEvent(t) ==
    /\ task[t].pc = "iterating"
    /\ ~Blocked(t)
    /\ Len(task[t].events) < MaxEvents
    /\ \E e \in Events(provider) :
         LET r == CallStreamApi(provider, e)
             log == Append(task[t].events, e)
         IN  CASE r.act = "yield" ->
                    /\ task' = [task EXCEPT ![t] = [@ EXCEPT
                                   !.pc = "yielded", !.events = log,
                                   !.produced = Append(@, r.frag),
                                   !.yielded = Append(@, ReYield(r.frag))]]
                    /\ UNCHANGED <<metrics, latencies>>
               [] r.act = "skip" ->
                    /\ task' = [task EXCEPT ![t] = [@ EXCEPT
                                   !.events = log,
                                   !.swallowed = IF r.error = None THEN @ ELSE @ + 1]]
                    /\ UNCHANGED <<metrics, latencies>>
               [] r.act = "break" -> StreamExhausted(t, log)
               [] r.act = "raise" -> StreamRaised(t, "validation", log)
    /\ UNCHANGED <<provider, config, now, others>>

\* the consumer asks for the next fragment
StreamResume(t) ==
    /\ task[t].pc = "yielded"
    /\ ~Blocked(t)
    /\ task' = [task EXCEPT ![t] = [@ EXCEPT !.pc = "iterating"]]
    /\ UNCHANGED <<provider, config, metrics, now, latencies, others>>

\* the upstream body ends: the call path is exhausted
StreamEnd(t) ==
    /\ task[t].pc = "iterating"
    /\ ~Blocked(t)
    /\ StreamExhausted(t, task[t].events)
    /\ UNCHANGED <<provider, config, now, others>>

\* the upstream fails (connection, status, timeout, broken body)
StreamFail(t) ==
    /\ task[t].pc = "iterating"
    /\ ~Blocked(t)
    /\ StreamRaised(t, "transport", task[t].events)
    /\ UNCHANGED <<provider, config, now, others>>

\* the consumer closes the sequence it stopped consuming: aclose() throws
\* GeneratorExit at the yield
StreamClose(t) ==
    /\ task[t].pc = "yielded"
    /\ ~Blocked(t)
    /\ StreamRaised(t, "GeneratorExit", task[t].events)
    /\ UNCHANGED <<provider, config, now, others>>

\* ---------------------------------------------------------------- metrics access
\* a get_metrics that hands out self.metrics itself
LiveReference(m) ==
    [held |-> TRUE, live |-> TRUE, value |-> m,
     taken |-> m, modified |-> FALSE, resets |-> 0]

\* self.metrics.model_copy(): a new object with the same field values. The
\* caller holds it; live tells whether it is the adapter's own object; taken,
\* modified and resets are history: the value at the time of the call, whether
\* the caller has written to it, and whether the adapter has been reset since
ModelCopy(m) ==
    [held |-> TRUE, live |-> FALSE, value |-> m,
     taken |-> m, modified |-> FALSE, resets |-> 0]

\* the field values of the object the caller holds
Held == IF snapshot.live THEN metrics ELSE snapshot.value

GetMetrics ==
    /\ ~snapshot.held
    /\ snapshot' = ModelCopy(metrics)
    /\ UNCHANGED <<provider, config, metrics, now, task, latencies, wire, registry, creation>>

\* a value no counter of the adapter reaches
Scribble == 99

\* the caller assigns to a field of the value it got from get_metrics
ModifySnapshot ==
    /\ snapshot.held
    /\ ~snapshot.modified
    /\ IF snapshot.live
       THEN /\ metrics' = [metrics EXCEPT !.request_count = Scribble]
            /\ snapshot' = [snapshot EXCEPT !.modified = TRUE]
       ELSE /\ metrics' = metrics
            /\ snapshot' = [snapshot EXCEPT !.modified = TRUE,
                                            !.value.request_count = Scribble]
    /\ UNCHANGED <<provider, config, now, task, latencies, wire, registry, creation>>

\* reset_metrics: self.metrics becomes a new object; a caller that held the
\* old one still holds the old one
ResetMetrics ==
    /\ metrics' = NewMetrics
    /\ latencies' = <<>>
    /\ snapshot' = IF snapshot.held
                   THEN [snapshot EXCEPT !.live = FALSE, !.value = Held, !.resets = 1]
                   ELSE snapshot
    /\ UNCHANGED <<provider, config, now, task, wire, registry, creation>>

\* the caller is done with a call and makes its next one
NextCall(t) ==
    /\ task[t].pc \in {"returned", "raised", "exhausted", "closed"}
    /\ task[t].round < MaxCalls
    /\ task' = [task EXCEPT ![t] = [NewTask EXCEPT !.round = task[t].round + 1]]
    /\ UNCHANGED <<provider, config, metrics, now, latencies, snapshot, wire, registry, creation>>

\* ---------------------------------------------------------------- clock
InFlight(t) == task[t].pc \in {"call_api", "sleep", "iterating", "yielded"}

Tick ==
    /\ now < MaxTime
    /\ \E t \in DOMAIN task : InFlight(t)
    /\ now' = now + 1
    /\ UNCHANGED <<provider, config, metrics, task, latencies, others>>

\* ---------------------------------------------------------------- wire payloads
MaxMessages == 3          \* messages in one request

Roles == {"system", "user", "assistant"}
Contents == {"a", "b"}

\* UnifiedMessage with name and function_call left at None
UnifiedMessage(role, content) == [role |-> role, content |-> content, name |-> None]

\* request.messages: at least one message (min_items=1)
MessageLists ==
    UNION {[1..n -> {UnifiedMessage(r, c) : r \in Roles, c \in Contents}] : n \in 1..MaxMessages}

\* a dict with no key
EmptyDict == [k \in {} |-> None]

\* request.extra_params: nothing, or one provider-specific parameter; the keys
\* are those some adapter also sets from a named field, and one that none sets
ExtraValues ==
    [model |-> {"other-model"}, messages |-> {<<>>}, stream |-> BOOLEAN,
     max_tokens |-> {9}, system |-> {"x"}, query |-> {"x"},
     response_mode |-> {"x"}, conversation_id |-> {"x"}, logit_bias |-> {"x"}]

ExtraParams ==
    {EmptyDict} \cup UNION {{[j \in {k} |-> v] : v \in ExtraValues[k]} : k \in DOMAIN ExtraValues}

\* UnifiedChatRequest; max_tokens 0 and user None stand for the default None,
\* and top_p, frequency_penalty, presence_penalty and stop are left at None
Requests ==
    [messages : MessageLists, model : {"m"}, temperature : {Rat(7, 10)},
     max_tokens : {0, 5}, user : {None, "u"}, extra_params : ExtraParams]

\* dict.update(other): the keys of other replace those of d
Update(d, other) ==
    [k \in DOMAIN d \cup DOMAIN other |-> IF k \in DOMAIN other THEN other[k] ELSE d[k]]

\* if value: api_params[key] = value
SetIf(d, cond, key, value) == IF cond THEN Update(d, [j \in {key} |-> value]) ELSE d

WireMessage(msg) == [role |-> msg.role, content |-> msg.content]

ConvertToOpenAIMessages(messages) ==
    [i \in 1..Len(messages) |->
        IF messages[i].name # None
        THEN [role |-> messages[i].role, content |-> messages[i].content,
              name |-> messages[i].name]
        ELSE WireMessage(messages[i])]

OpenAIApiParams(request, stream) ==
    LET base == [model |-> request.model,
                 messages |-> ConvertToOpenAIMessages(request.messages),
                 temperature |-> request.temperature,
                 stream |-> stream]
        p1 == SetIf(base, request.max_tokens # 0, "max_tokens", request.max_tokens)
    IN  SetIf(p1, request.user # None, "user", request.user)

\* _convert_to_claude_messages: <<claude_messages, system_prompt>>; the last
\* system message is the prompt, "" when there is none
IsSystem(msg) == msg.role = "system"
NotSystem(msg) == msg.role # "system"
ConvertToClaudeMessages(messages) ==
    LET system == SelectSeq(messages, IsSystem)
        rest == SelectSeq(messages, NotSystem)
    IN  <<[i \in 1..Len(rest) |-> WireMessage(rest[i])],
          IF system = <<>> THEN "" ELSE system[Len(system)].content>>

DefaultMaxTokens == 1000

ClaudeApiParams(request, stream) ==
    LET converted == ConvertToClaudeMessages(request.messages)
        base == [model |-> request.model,
                 messages |-> converted[1],
                 max_tokens |-> IF request.max_tokens # 0 THEN request.max_tokens
                                ELSE DefaultMaxTokens,
                 temperature |-> request.temperature,
                 stream |-> stream]
    IN  SetIf(base, converted[2] # "", "system", converted[2])

\* _convert_messages_to_query: the last user message, else the last message
IsUser(msg) == msg.role = "user"
ConvertMessagesToQuery(messages) ==
    LET user_messages == SelectSeq(messages, IsUser)
    IN  IF messages = <<>> THEN ""
        ELSE IF user_messages # <<>> THEN user_messages[Len(user_messages)].content
        ELSE messages[Len(messages)].content

\* _extract_conversation_context: the first system message, and the user and
\* assistant messages of messages[:-1]; a key is present only when it has a value
IsTurn(msg) == msg.role \in {"user", "assistant"}
ExtractConversationContext(messages) ==
    LET system_messages == SelectSeq(messages, IsSystem)
        turns == SelectSeq(SubSeq(messages, 1, Len(messages) - 1), IsTurn)
        conversation_history == [i \in 1..Len(turns) |-> WireMessage(turns[i])]
        c1 == SetIf(EmptyDict, system_messages # <<>>, "system_instruction",
                    IF system_messages # <<>> THEN system_messages[1].content ELSE "")
    IN  SetIf(c1, conversation_history # <<>>, "conversation_history", conversation_history)

\* the {} that context.get("system_instruction", {}) falls back to, and the
\* str(uuid.uuid4()) that stands in for a missing user
EmptyInputs == "{}"
RandomUser == "uuid4"

\* dify_config.conversation_id: None unless configured
ConversationIds == {None, "conv-1"}

DifyApiParams(request, response_mode, conversation_id) ==
    LET context == ExtractConversationContext(request.messages)
        base == [inputs |-> IF "system_instruction" \in DOMAIN context
                            THEN context["system_instruction"] ELSE EmptyInputs,
                 query |-> ConvertMessagesToQuery(request.messages),
                 response_mode |-> response_mode,
                 user |-> IF request.user # None THEN request.user ELSE RandomUser]
    IN  SetIf(base, conversation_id # None, "conversation_id", conversation_id)

CallPaths == {"_call_api", "_call_stream_api"}

\* the payload as built from the named fields, and as sent after
\* api_params.update(request.extra_params)
Sent(path, request, conversation_id, named) ==
    [built |-> TRUE, path |-> path, request |-> request,
     conversation_id |-> conversation_id,
     named |-> named, payload |-> Update(named, request.extra_params),
     upstream |-> <<>>, response |-> <<>>]

OpenAISend ==
    /\ provider = "openai"
    /\ ~wire.built
    /\ \E path \in CallPaths, request \in Requests :
         wire' = Sent(path, request, None,
                      OpenAIApiParams(request, path = "_call_stream_api"))
    /\ UNCHANGED <<provider, config, metrics, now, task, latencies, snapshot, registry, creation>>

ClaudeSend ==
    /\ provider = "claude"
    /\ ~wire.built
    /\ \E path \in CallPaths, request \in Requests :
         wire' = Sent(path, request, None,
                      ClaudeApiParams(request, path = "_call_stream_api"))
    /\ UNCHANGED <<provider, config, metrics, now, task, latencies, snapshot, registry, creation>>

DifySend ==
    /\ provider = "dify"
    /\ ~wire.built
    /\ \E path \in CallPaths, request \in Requests, conversation_id \in ConversationIds :
         wire' = Sent(path, request, conversation_id,
                      DifyApiParams(request,
                                    IF path = "_call_api" THEN "blocking" ELSE "streaming",
                                    conversation_id))
    /\ UNCHANGED <<provider, config, metrics, now, task, latencies, snapshot, registry, creation>>

\* ---------------------------------------------------------------- unified responses
\* a key the upstream's JSON body does not have
Absent == "absent"

\* the completion reason in the upstream's response to a non-streaming call:
\*   openai: choices[0].finish_reason, which may be null;
\*   claude: the stop_reason of the message, which may be null or missing;
\*   dify:   the blocking response carries none
UpstreamReasons(kind) ==
    CASE kind = "openai" -> {None, "stop", "length", "content_filter", "tool_calls"}
      [] kind = "claude" -> {Absent, None, "end_turn", "max_tokens", "stop_sequence", "tool_use"}
      [] kind = "dify" -> {Absent}

\* the reason the upstream gives for a response that ran to its natural end
NaturalEnd(kind) ==
    CASE kind = "openai" -> "stop"
      [] kind = "claude" -> "end_turn"
      [] kind = "dify" -> Absent

\* finish_reason=response.choices[0].finish_reason or "stop"
OpenAIFinishReason(reason) == IF reason = None THEN "stop" ELSE reason

\* finish_reason=data.get("stop_reason", "stop")
ClaudeFinishReason(reason) == IF reason = Absent THEN "stop" ELSE reason

\* finish_reason="stop"
DifyFinishReason(reason) == "stop"

\* UnifiedChatResponse(..., finish_reason=...): finish_reason is a required
\* str, so None makes the construction raise a ValidationError
UnifiedChatResponse(finish_reason) ==
    IF finish_reason = None
    THEN [raised |-> "ValidationError", finish_reason |-> None]
    ELSE [raised |-> None, finish_reason |-> finish_reason]

\* the rest of _call_api once the upstream has answered: the unified
\* response is built from the upstream's response
Received(reason, finish_reason) ==
    [wire EXCEPT !.upstream = <<reason>>,
                 !.response = <<UnifiedChatResponse(finish_reason)>>]

Answered == wire.built /\ wire.path = "_call_api" /\ wire.response = <<>>

OpenAIReceive ==
    /\ provider = "openai"
    /\ Answered
    /\ \E reason \in UpstreamReasons("openai") :
         wire' = Received(reason, OpenAIFinishReason(reason))
    /\ UNCHANGED <<provider, config, metrics, now, task, latencies, snapshot, registry, creation>>

ClaudeReceive ==
    /\ provider = "claude"
    /\ Answered
    /\ \E reason \in UpstreamReasons("claude") :
         wire' = Received(reason, ClaudeFinishReason(reason))
    /\ UNCHANGED <<provider, config, metrics, now, task, latencies, snapshot, registry, creation>>

DifyReceive ==
    /\ provider = "dify"
    /\ Answered
    /\ \E reason \in UpstreamReasons("dify") :
         wire' = Received(reason, DifyFinishReason(reason))
    /\ UNCHANGED <<provider, config, metrics, now, task, latencies, snapshot, registry, creation>>

\* ---------------------------------------------------------------- configuration
\* api keys, as the sequence of their characters
Chars(n, c) == [i \in 1..n |-> c]
SkPrefix == <<"s", "k", "-">>
SkAntPrefix == <<"s", "k", "-", "a", "n", "t", "-">>
MinDifyKeyLen == 10

ApiKeys ==
    { <<>>,                          \* ""
      SkPrefix \o Chars(2, "x"),      \* "sk-xx"
      SkPrefix \o Chars(7, "x"),      \* "sk-xxxxxxx"
      SkAntPrefix \o Chars(3, "x"),   \* "sk-ant-xxx"
      Chars(10, "k"),                 \* "kkkkkkkkkk"
      Chars(10, " ") }                \* ten blanks

\* config_data: no api_key, an api_key alone, or an api_key and an empty base_url
ConfigData ==
    {EmptyDict} \cup {[api_key |-> k] : k \in ApiKeys}
        \cup {[api_key |-> k, base_url |-> ""] : k \in ApiKeys}

StartsWith(v, prefix) == Len(v) >= Len(prefix) /\ SubSeq(v, 1, Len(prefix)) = prefix

\* v.strip() is empty
Blank(v) == \A i \in 1..Len(v) : v[i] = " "

ProviderClasses == {"OpenAIProvider", "ClaudeProvider", "DifyProvider"}
ConfigClasses == {"OpenAIConfig", "ClaudeConfig", "DifyConfig"}
\* a class that is no adapter, and a class that is no config
OtherClass == "object"

\* a validator that accepts every key
ValidateApiKeyAny(config_class, v) == TRUE

\* the api_key field validator of the config class
ValidateApiKey(config_class, v) ==
    CASE config_class = "OpenAIConfig" -> StartsWith(v, SkPrefix)
      [] config_class = "ClaudeConfig" -> StartsWith(v, SkAntPrefix)
      [] config_class = "DifyConfig" -> ~Blank(v) /\ Len(v) >= MinDifyKeyLen

\* config_class(**config_data) passes the schema: api_key is required, has
\* min_length 1 and passes the class's validator; base_url is any string
SchemaAccepts(config_class, config_data) ==
    /\ "api_key" \in DOMAIN config_data
    /\ Len(config_data["api_key"]) >= 1
    /\ ValidateApiKey(config_class, config_data["api_key"])

DefaultBaseUrl(config_class) ==
    IF config_class = "DifyConfig" THEN "https://api.dify.ai" ELSE None

\* the config object
Config(config_class, config_data) ==
    [api_key |-> config_data["api_key"],
     base_url |-> IF "base_url" \in DOMAIN config_data THEN config_data["base_url"]
                  ELSE DefaultBaseUrl(config_class)]

\* the adapter's _validate_config: None, or the name of what it raises.
\* ClaudeProvider.__init__ sets self.claude_config only after
\* super().__init__, so its _validate_config reads an attribute not set yet
ValidateConfig(provider_class, cfg) ==
    CASE provider_class = "OpenAIProvider" ->
            IF cfg.api_key = <<>> THEN "ValueError" ELSE None
      [] provider_class = "ClaudeProvider" -> "AttributeError"
      [] provider_class = "DifyProvider" ->
            IF cfg.api_key = <<>> \/ cfg.base_url \in {None, ""} THEN "ValueError" ELSE None

\* ---------------------------------------------------------------- registry
\* a dict: its items in insertion order, each key once
DictHas(d, k) == \E i \in 1..Len(d) : d[i][1] = k
DictGet(d, k) == IF DictHas(d, k) THEN d[CHOOSE i \in 1..Len(d) : d[i][1] = k][2] ELSE None
DictKeys(d) == [i \in 1..Len(d) |-> d[i][1]]
\* an assignment that adds an item even when the key is there
DictSetAppends(d, k, v) == Append(d, <<k, v>>)
\* d[k] = v
DictSet(d, k, v) ==
    IF DictHas(d, k) THEN [i \in 1..Len(d) |-> IF d[i][1] = k THEN <<k, v>> ELSE d[i]]
    ELSE Append(d, <<k, v>>)

\* ProviderType values used as tags; nothing registers "qwen"
Tags == {"openai", "claude", "dify", "qwen"}

\* the register calls made: those of the adapter modules, and for the tag
\* "openai" every pair of the OpenAI, Dify and other classes
Registrations ==
    {<<"openai", "OpenAIProvider", "OpenAIConfig">>,
     <<"claude", "ClaudeProvider", "ClaudeConfig">>,
     <<"dify", "DifyProvider", "DifyConfig">>}
    \cup {<<"openai", a, c>> : a \in {"OpenAIProvider", "DifyProvider", OtherClass},
                               c \in {"OpenAIConfig", "DifyConfig", OtherClass}}

\* the registry, with (history) per tag how many register calls were accepted,
\* counted up to two, the pair of the last one, and whether that one replaced
\* another adapter class and another config class
EmptyRegistry ==
    [providers |-> <<>>, config_classes |-> <<>>,
     accepted |-> [t \in Tags |-> [count |-> 0, provider_class |-> None,
                                    config_class |-> None, replaced |-> FALSE]]]

\* a register that stores the adapter class before it checks the config class
RegisterUnchecked(reg, provider_type, provider_class, config_class) ==
    IF provider_class \notin ProviderClasses
    THEN [registry |-> reg, result |-> "ValueError"]
    ELSE IF config_class \notin ConfigClasses
    THEN [registry |-> [reg EXCEPT !.providers = DictSet(@, provider_type, provider_class)],
          result |-> "ValueError"]
    ELSE [registry |-> [reg EXCEPT
                          !.providers = DictSet(@, provider_type, provider_class),
                          !.config_classes = DictSet(@, provider_type, config_class)],
          result |-> None]

\* register: the registry after the call, and what the call raised
Register(reg, provider_type, provider_class, config_class) ==
    IF provider_class \notin ProviderClasses \/ config_class \notin ConfigClasses
    THEN [registry |-> reg, result |-> "ValueError"]
    ELSE [registry |-> [reg EXCEPT
                          !.providers = DictSet(@, provider_type, provider_class),
                          !.config_classes = DictSet(@, provider_type, config_class)],
          result |-> None]

GetProviderClass(provider_type) == DictGet(registry.providers, provider_type)
GetConfigClass(provider_type) == DictGet(registry.config_classes, provider_type)
ListProviders == DictKeys(registry.providers)

\* a create_provider that never reports an unknown provider
UnknownNever(provider_class, config_class) == FALSE

\* if not provider_class or not config_class
Unknown(provider_class, config_class) == provider_class = None \/ config_class = None

\* create_provider: the steps it went through, in order, what it raised
\* (None when it returned the adapter), and whether a client was opened
CreateProvider(provider_type, config_data) ==
    LET provider_class == GetProviderClass(provider_type)
        config_class == GetConfigClass(provider_type)
        call == [op |-> "create_provider", provider_type |-> provider_type,
                 config_data |-> config_data,
                 provider_class |-> provider_class, config_class |-> config_class,
                 steps |-> <<>>, result |-> None, client |-> FALSE]
    IN  IF Unknown(provider_class, config_class)
        THEN [call EXCEPT !.result = "ValueError: Unknown provider"]
        ELSE IF config_class = None \/ provider_class = None
        THEN [call EXCEPT !.result = "TypeError"]
        ELSE IF ~SchemaAccepts(config_class, config_data)
        THEN [call EXCEPT !.steps = <<"config">>, !.result = "ValidationError"]
        ELSE LET raised == ValidateConfig(provider_class, Config(config_class, config_data))
             IN  IF raised # None
                 THEN [call EXCEPT !.steps = <<"config", "_validate_config">>,
                                   !.result = raised]
                 ELSE [call EXCEPT !.steps = <<"config", "_validate_config",
                                               "_initialize_client">>,
                                   !.client = TRUE]

DoRegister ==
    \E r \in Registrations :
        LET done == Register(registry, r[1], r[2], r[3]) IN
        /\ registry' =
              IF done.result = None
              THEN [done.registry EXCEPT !.accepted[r[1]] =
                       [count |-> Min(@.count + 1, 2),
                        provider_class |-> r[2], config_class |-> r[3],
                        replaced |-> /\ @.count > 0
                                     /\ @.provider_class # r[2]
                                     /\ @.config_class # r[3]]]
              ELSE done.registry
        /\ creation' = [op |-> "register", provider_type |-> r[1],
                        provider_class |-> r[2], config_class |-> r[3],
                        result |-> done.result]
        /\ UNCHANGED <<provider, config, metrics, now, task, latencies, snapshot, wire>>

DoCreateProvider ==
    \E provider_type \in Tags, config_data \in ConfigData :
        /\ creation' = CreateProvider(provider_type, config_data)
        /\ UNCHANGED <<provider, config, metrics, now, task, latencies, snapshot, wire, registry>>

\* ---------------------------------------------------------------- specification
Next ==
    \/ \E t \in Tasks : ChatStart(t)
    \/ \E t \in Tasks : ChatAttemptOk(t)
    \/ \E t \in Tasks : ChatAttemptFail(t)
    \/ \E t \in Tasks : ChatWake(t)
    \/ \E t \in Tasks : StreamStart(t)
    \/ \E t \in Tasks : StreamEvent(t)
    \/ \E t \in Tasks : StreamResume(t)
    \/ \E t \in Tasks : StreamEnd(t)
    \/ \E t \in Tasks : StreamFail(t)
    \/ \E t \in Tasks : StreamClose(t)
    \/ Tick

Spec == Init /\ [][Next]_vars

\* an adapter builds the wire payload of one request
WireInit ==
    /\ provider \in ConcreteKinds
    /\ config = [max_retries |-> 0, retry_delay |-> 1]
    /\ metrics = NewMetrics
    /\ now = 0
    /\ task = [t \in Tasks |-> NewTask]
    /\ snapshot = NoSnapshot
    /\ latencies = <<>>
    /\ wire = NoWire
    /\ registry = NoRegistry
    /\ creation = NoCreation

WireNext ==
    \/ OpenAISend \/ ClaudeSend \/ DifySend
    \/ OpenAIReceive \/ ClaudeReceive \/ DifyReceive

SpecWire == WireInit /\ [][WireNext]_vars

\* the registry: register and create_provider calls in any order
RegistryInit ==
    /\ provider = "generic"
    /\ config = [max_retries |-> 0, retry_delay |-> 1]
    /\ metrics = NewMetrics
    /\ now = 0
    /\ task = [t \in Tasks |-> NewTask]
    /\ snapshot = NoSnapshot
    /\ latencies = <<>>
    /\ wire = NoWire
    /\ registry = EmptyRegistry
    /\ creation = NoCreation

RegistryNext == DoRegister \/ DoCreateProvider

SpecRegistry == RegistryInit /\ [][RegistryNext]_vars

\* one caller makes calls one after the other on one adapter, whose streams
\* have empty bodies, while the metrics are read and reset
MetricsInit ==
    /\ provider = "generic"
    /\ config = [max_retries |-> 1, retry_delay |-> 1]
    /\ metrics = NewMetrics
    /\ now = 0
    /\ task = [t \in Tasks |-> NewTask]
    /\ snapshot = NoSnapshot
    /\ latencies = <<>>
    /\ wire = NoWire
    /\ registry = NoRegistry
    /\ creation = NoCreation

MetricsNext ==
    \/ \E t \in Tasks : ChatStart(t)
    \/ \E t \in Tasks : ChatAttemptOk(t)
    \/ \E t \in Tasks : ChatAttemptFail(t)
    \/ \E t \in Tasks : ChatWake(t)
    \/ \E t \in Tasks : StreamStart(t)
    \/ \E t \in Tasks : StreamEnd(t)
    \/ \E t \in Tasks : StreamFail(t)
    \/ \E t \in Tasks : NextCall(t)
    \/ Tick
    \/ GetMetrics
    \/ ModifySnapshot
    \/ ResetMetrics

SpecMetrics == MetricsInit /\ [][MetricsNext]_vars

\* two callers use one adapter at the same time
Callers == {1, 2}

ConcurrentInit ==
    /\ provider = "generic"
    /\ config = [max_retries |-> 1, retry_delay |-> 2]
    /\ metrics = NewMetrics
    /\ now = 0
    /\ task = [t \in Callers |-> NewTask]
    /\ snapshot = NoSnapshot
    /\ latencies = <<>>
    /\ wire = NoWire
    /\ registry = NoRegistry
    /\ creation = NoCreation

ConcurrentNext ==
    \/ \E t \in Callers : ChatStart(t)
    \/ \E t \in Callers : ChatAttemptOk(t)
    \/ \E t \in Callers : ChatAttemptFail(t)
    \/ \E t \in Callers : ChatWake(t)
    \/ \E t \in Callers : StreamStart(t)
    \/ \E t \in Callers : task[t].events = <<>> /\ StreamEvent(t)
    \/ \E t \in Callers : StreamResume(t)
    \/ \E t \in Callers : StreamEnd(t)
    \/ \E t \in Callers : StreamFail(t)
    \/ \E t \in Callers : StreamClose(t)
    \/ Tick

SpecConcurrent == ConcurrentInit /\ [][ConcurrentNext]_vars

\* ---------------------------------------------------------------- properties

IsChat(t) == task[t].op = "chat"
IsStream(t) == task[t].op = "chat_stream"

\* C1: with max_retries = N, a chat call never invokes the call path more than
\* N+1 times; when all N+1 attempts have failed it has raised ProviderError
\* MAX_RETRIES_EXCEEDED with is_retryable = false and has returned no response;
\* it raises only then, and while every attempt so far has failed it has not
\* returned.
C1_AlwaysFailingChat ==
    \A t \in Tasks : IsChat(t) =>
        /\ task[t].calls <= config.max_retries + 1
        /\ task[t].failed <= task[t].calls
        /\ (task[t].failed = config.max_retries + 1 =>
              /\ task[t].pc = "raised"
              /\ task[t].calls = config.max_retries + 1
              /\ task[t].error = <<[error_code |-> "MAX_RETRIES_EXCEEDED",
                                    cause |-> task[t].last_error,
                                    is_retryable |-> FALSE]>>
              /\ task[t].response = <<>>)
        /\ (task[t].pc = "raised" => task[t].failed = config.max_retries + 1)
        /\ (task[t].failed = task[t].calls => task[t].pc \in {"sleep", "raised"})

C1_Witness ==
    \E t \in Tasks : IsChat(t) /\ task[t].pc = "raised" /\ config.max_retries = 2
                     /\ task[t].calls = 3

\* C2: a chat call that returned after K failed attempts made K+1 attempts and
\* added exactly 1 to request_count, 1 to success_count and K to error_count.
C2_ChatSuccessMetrics ==
    \A t \in Tasks : (IsChat(t) /\ task[t].pc = "returned") =>
        /\ task[t].failed <= config.max_retries
        /\ task[t].calls = task[t].failed + 1
        /\ task[t].d = [req |-> 1, succ |-> 1, err |-> task[t].failed]
        /\ Len(task[t].response) = 1
        /\ task[t].error = <<>>

C2_Witness ==
    \E t \in Tasks : IsChat(t) /\ task[t].pc = "returned" /\ task[t].failed = 2
                     /\ metrics.error_count = 3

\* C3: the i-th backoff wait of a chat call (i = 1, 2, ...) is
\* retry_delay * i, there is one wait per failed attempt that is not the last
\* one allowed, none after the last failed attempt or after a success, and the
\* next attempt does not start before the wait is over.
C3_LinearBackoff ==
    \A t \in Tasks : IsChat(t) =>
        /\ Len(task[t].sleeps) = Min(task[t].failed, config.max_retries)
        /\ \A i \in 1..Len(task[t].sleeps) : task[t].sleeps[i] = config.retry_delay * i
        /\ \A i \in 2..Len(task[t].sleeps) : task[t].sleeps[i] > task[t].sleeps[i - 1]
        /\ (task[t].pc = "sleep" =>
              task[t].sleep_until = task[t].failed_at + config.retry_delay * task[t].failed)
        /\ ((task[t].attempt > 0 /\ task[t].pc # "sleep") =>
              task[t].attempt_start >= task[t].sleep_until)
        /\ task[t].calls = task[t].attempt + 1

C3_Witness ==
    \E t \in Tasks : IsChat(t) /\ Len(task[t].sleeps) = 2 /\ task[t].pc = "call_api"

\* C4: the latency stamped on the response of a chat call is the duration of
\* the successful attempt alone.
C4_LatencyOfSuccessfulAttempt ==
    \A t \in Tasks : (IsChat(t) /\ task[t].pc = "returned") =>
        task[t].response[1].latency_ms
            = (task[t].end_time - task[t].attempt_start) * MsPerSecond

\* C5: a chat_stream call counts one request, invokes the streaming call path
\* once whatever max_retries is, hands the caller the fragments of the call
\* path unchanged and in order, and counts one success and no error when the
\* call path is exhausted.
C5_StreamPassThrough ==
    \A t \in Tasks : IsStream(t) =>
        /\ task[t].d.req = 1
        /\ task[t].calls = 1
        /\ task[t].yielded = task[t].produced
        /\ (task[t].pc = "exhausted" =>
              task[t].d = [req |-> 1, succ |-> 1, err |-> 0] /\ task[t].error = <<>>)

C5_Witness ==
    \E t \in Tasks : IsStream(t) /\ task[t].pc = "exhausted" /\ config.max_retries > 0
                     /\ Len(task[t].yielded) = 3
                     /\ task[t].yielded[3].finish_reason = "stop"
                     /\ task[t].yielded[1].finish_reason = None

\* C6: a step in which the streaming call path fails ends the chat_stream call
\* with ProviderError STREAM_ERROR, is_retryable = true, adds exactly 1 to
\* error_count, leaves the rest of the metrics as they were and keeps the
\* fragments already yielded.
C6_StreamFailure ==
    [][\A t \in Tasks :
         (task'[t].op = "chat_stream" /\ task[t].last_error = None
            /\ task'[t].last_error \in ErrorKinds) =>
           /\ task'[t].pc = "raised"
           /\ task'[t].error = <<[error_code |-> "STREAM_ERROR",
                                  cause |-> task'[t].last_error,
                                  is_retryable |-> TRUE]>>
           /\ metrics' = [metrics EXCEPT !.error_count = @ + 1]
           /\ task'[t].d = [req |-> 1, succ |-> 0, err |-> 1]
           /\ task'[t].yielded = task[t].yielded]_vars

C6_Witness ==
    \E t \in Tasks : IsStream(t) /\ task[t].pc = "raised" /\ Len(task[t].yielded) = 2
                     /\ metrics.success_count = 1

\* the scripted bodies of C7: content events followed by one terminal event
ContentEvent(kind) ==
    CASE kind = "openai" -> Event("chunk", "a", None)
      [] kind = "claude" -> Event("content_block_delta", "a", None)
      [] kind = "dify" -> Event("message_delta", "a", None)

TerminalEvent(kind) ==
    CASE kind = "openai" -> Event("chunk", "", "stop")
      [] kind = "claude" -> Event("message_stop", "", None)
      [] kind = "dify" -> Event("message_end", "", None)

\* events is the beginning of a body of content events and one terminal event
ScriptedSoFar(kind, events) ==
    \A i \in 1..Len(events) :
        \/ events[i] = ContentEvent(kind)
        \/ i = Len(events) /\ events[i] = TerminalEvent(kind)

ScriptedBody(kind, events) ==
    /\ Len(events) >= 1
    /\ ScriptedSoFar(kind, events)
    /\ events[Len(events)] = TerminalEvent(kind)

\* C7: on a body of M content events and one terminal event, every adapter
\* yields one fragment per event, the first M with a non-empty delta and no
\* finish_reason, the last with finish_reason set, and ends normally: while
\* such a body is being delivered the call raises nothing, and once it is
\* exhausted the caller has received exactly those M + 1 fragments.
C7_ScriptedStream ==
    \A t \in Tasks : (IsStream(t) /\ provider \in ConcreteKinds) =>
        /\ (ScriptedSoFar(provider, task[t].events) /\ task[t].last_error # "transport")
              => task[t].pc # "raised"
        /\ (ScriptedBody(provider, task[t].events) /\ task[t].pc = "exhausted") =>
              /\ Len(task[t].yielded) = Len(task[t].events)
              /\ \A i \in 1..Len(task[t].yielded) :
                    IF i < Len(task[t].events)
                    THEN /\ task[t].yielded[i].finish_reason = None
                         /\ task[t].yielded[i].delta # ""
                    ELSE task[t].yielded[i].finish_reason # None

\* C8: the fragments one chat_stream call of an OpenAI, Claude or Dify adapter
\* yields hold at most one fragment with finish_reason set, and it is the last.
\* No state reaches C8_TerminalYielded: every UnifiedStreamResponse the three
\* adapters build is rejected (C7), so this holds of them with nothing yielded.
C8_AtMostOneTerminal ==
    \A t \in Tasks : (IsStream(t) /\ provider \in ConcreteKinds) =>
        \A i \in 1..Len(task[t].yielded) :
            task[t].yielded[i].finish_reason # None => i = Len(task[t].yielded)

\* a fragment with finish_reason set has reached the caller of such an adapter
C8_TerminalYielded ==
    \E t \in Tasks : IsStream(t) /\ provider \in ConcreteKinds
                     /\ \E i \in 1..Len(task[t].yielded) :
                           task[t].yielded[i].finish_reason # None

\* C9: when the OpenAI stream ends with a chunk that carries a finish_reason
\* and no content, the last fragment yielded carries that finish_reason.
C9_OpenAITerminalFragment ==
    \A t \in Tasks : (IsStream(t) /\ provider = "openai" /\ task[t].pc = "exhausted"
                        /\ Len(task[t].events) >= 1
                        /\ task[t].events[Len(task[t].events)].type = "chunk"
                        /\ task[t].events[Len(task[t].events)].text = ""
                        /\ task[t].events[Len(task[t].events)].finish # None) =>
        /\ Len(task[t].yielded) >= 1
        /\ task[t].yielded[Len(task[t].yielded)].finish_reason
              = task[t].events[Len(task[t].events)].finish

\* C10: a step in which the caller closes a chat_stream sequence it stopped
\* consuming raises no ProviderError and leaves the metrics as they are: the
\* call has counted its request and neither a success nor an error.
C10_Cancellation ==
    [][\A t \in Tasks :
         (task[t].pc = "yielded" /\ task'[t].last_error = "GeneratorExit") =>
           /\ task'[t].pc = "closed"
           /\ task'[t].error = <<>>
           /\ metrics' = metrics
           /\ task'[t].d = [req |-> 1, succ |-> 0, err |-> 0]
           /\ task'[t].yielded = task[t].yielded]_vars

C10_Witness ==
    \E t \in Tasks : IsStream(t) /\ task[t].pc = "closed" /\ Len(task[t].yielded) = 2
                     /\ metrics.request_count = 3


\* C11: every chat call and every fully consumed chat_stream call ends in exactly
\* one of two ways, a success or a raised ProviderError, and a stream that ends
\* as a success has dropped no error on the way: no error raised while an
\* adapter processed an upstream event was turned into a missing fragment.
C11_NoErrorSwallowed ==
    \A t \in Tasks :
        /\ task[t].pc = "returned" => task[t].response # <<>> /\ task[t].error = <<>>
        /\ task[t].pc = "raised" =>
              /\ task[t].response = <<>>
              /\ Len(task[t].error) = 1
              /\ task[t].error[1].error_code \in {"MAX_RETRIES_EXCEEDED", "STREAM_ERROR"}
        /\ task[t].pc = "exhausted" => task[t].error = <<>> /\ task[t].swallowed = 0

\* C12: for every adapter and both call paths, every key the adapter set from
\* a named field of the request still carries that value in the payload that
\* is sent: no key of extra_params shadows it.
C12_ExtraNeverShadows ==
    wire.built => \A k \in DOMAIN wire.named : wire.payload[k] = wire.named[k]

\* one system message followed by alternating user / assistant messages
SystemThenAlternating(messages) ==
    /\ Len(messages) >= 2
    /\ messages[1].role = "system"
    /\ \A i \in 2..Len(messages) :
          messages[i].role = IF i % 2 = 0 THEN "user" ELSE "assistant"

\* C13: for the Claude adapter, a request of one system message followed by
\* alternating user / assistant messages is sent with the system content in
\* the top-level system field only, and with all the other messages in the
\* messages array in their original order and with their roles.
C13_ClaudeSystemField ==
    (wire.built /\ provider = "claude" /\ SystemThenAlternating(wire.request.messages)) =>
        LET messages == wire.request.messages IN
        /\ "system" \in DOMAIN wire.payload
        /\ wire.payload["system"] = messages[1].content
        /\ \A i \in 1..Len(wire.payload["messages"]) :
              wire.payload["messages"][i].role # "system"
        /\ wire.payload["messages"] =
              [i \in 1..(Len(messages) - 1) |-> WireMessage(messages[i + 1])]

\* the same for the payload as built from the named fields alone
C13_ClaudeNamedFields ==
    (wire.built /\ provider = "claude" /\ SystemThenAlternating(wire.request.messages)) =>
        LET messages == wire.request.messages IN
        /\ "system" \in DOMAIN wire.named
        /\ wire.named["system"] = messages[1].content
        /\ wire.named["messages"] =
              [i \in 1..(Len(messages) - 1) |-> WireMessage(messages[i + 1])]

\* the position of the last user message, 0 when there is none
LastUser(messages) ==
    IF \E i \in 1..Len(messages) : IsUser(messages[i])
    THEN CHOOSE i \in 1..Len(messages) :
            /\ IsUser(messages[i])
            /\ \A j \in (i + 1)..Len(messages) : ~IsUser(messages[j])
    ELSE 0

\* the user and assistant messages before the last user message, in order
EarlierTurns(messages) ==
    LET turns == SelectSeq(SubSeq(messages, 1, LastUser(messages) - 1), IsTurn)
    IN  [i \in 1..Len(turns) |-> WireMessage(turns[i])]

\* C14: for the Dify adapter, a multi-turn request sent with no extra
\* parameters has as query the content of its last user message, carries in
\* the payload every user / assistant message before that message, in order
\* and without the system message, and carries the system message separately
\* as the instruction.
C14_DifyQueryAndHistory ==
    (/\ wire.built /\ provider = "dify"
     /\ wire.request.extra_params = EmptyDict
     /\ LastUser(wire.request.messages) > 0
     /\ EarlierTurns(wire.request.messages) # <<>>) =>
        LET messages == wire.request.messages
            system == SelectSeq(messages, IsSystem)
        IN  /\ wire.payload["query"] = messages[LastUser(messages)].content
            /\ system # <<>> => wire.payload["inputs"] = system[1].content
            /\ "conversation_history" \in DOMAIN wire.payload
            /\ wire.payload["conversation_history"] = EarlierTurns(messages)

\* the part of C14 about the query and the instruction alone
C14_DifyQuery ==
    (/\ wire.built /\ provider = "dify"
     /\ wire.request.extra_params = EmptyDict
     /\ LastUser(wire.request.messages) > 0) =>
        LET messages == wire.request.messages
            system == SelectSeq(messages, IsSystem)
        IN  /\ wire.payload["query"] = messages[LastUser(messages)].content
            /\ system # <<>> => wire.payload["inputs"] = system[1].content

\* the steps of creating an adapter, in order
CreationSteps == <<"config", "_validate_config", "_initialize_client">>

\* a missing or malformed api key: none, empty, or not of the adapter's form
BadKey(config_class, config_data) ==
    \/ "api_key" \notin DOMAIN config_data
    \/ config_data["api_key"] = <<>>
    \/ config_class = "OpenAIConfig" /\ ~StartsWith(config_data["api_key"], SkPrefix)
    \/ config_class = "ClaudeConfig" /\ ~StartsWith(config_data["api_key"], SkAntPrefix)
    \/ config_class = "DifyConfig" /\ Len(config_data["api_key"]) < MinDifyKeyLen

\* C15: create_provider goes through the config schema, then the adapter's
\* _validate_config, then _initialize_client; the step that fails is the last
\* one taken, a client is opened only when all three were taken, and with a
\* missing or malformed api key the call fails with no client opened.
C15_CreationOrder ==
    (creation.op = "create_provider" /\ creation.config_class # None) =>
        /\ \E n \in 1..Len(CreationSteps) : creation.steps = SubSeq(CreationSteps, 1, n)
        /\ creation.result = None <=> creation.steps = CreationSteps
        /\ creation.client <=> creation.result = None
        /\ Len(creation.steps) >= 2 =>
              SchemaAccepts(creation.config_class, creation.config_data)
        /\ Len(creation.steps) >= 3 =>
              ValidateConfig(creation.provider_class,
                             Config(creation.config_class, creation.config_data)) = None
        /\ BadKey(creation.config_class, creation.config_data) =>
              /\ creation.result # None
              /\ ~creation.client
              /\ creation.steps = <<"config">>

\* a Dify adapter was asked for with the five-character key "sk-xx" and the
\* call failed at the schema
C15_Witness ==
    /\ creation.op = "create_provider"
    /\ creation.config_class = "DifyConfig"
    /\ creation.config_data = [api_key |-> SkPrefix \o Chars(2, "x")]
    /\ creation.result = "ValidationError"

\* C16: create_provider for a tag no register call was ever accepted for fails
\* with the unknown-provider error, constructs neither a config nor an
\* adapter, and leaves the registry as it was.
C16_UnknownProvider ==
    [][(/\ creation'.op = "create_provider"
        /\ registry.accepted[creation'.provider_type].count = 0) =>
            /\ creation'.result = "ValueError: Unknown provider"
            /\ creation'.steps = <<>>
            /\ ~creation'.client
            /\ registry' = registry]_vars

C16_Witness ==
    /\ creation.op = "create_provider"
    /\ creation.provider_type = "qwen"
    /\ creation.result = "ValueError: Unknown provider"
    /\ Len(registry.providers) = 3

\* C17: once a tag has been registered twice, every lookup and every
\* create_provider for it uses the adapter class and the config class of the
\* last accepted register call, and list_providers has the tag exactly once.
C17_RegisterOverrides ==
    \A t \in Tags :
        registry.accepted[t].count >= 2 =>
            /\ GetProviderClass(t) = registry.accepted[t].provider_class
            /\ GetConfigClass(t) = registry.accepted[t].config_class
            /\ Cardinality({i \in 1..Len(ListProviders) : ListProviders[i] = t}) = 1
            /\ (creation.op = "create_provider" /\ creation.provider_type = t) =>
                  /\ creation.provider_class = registry.accepted[t].provider_class
                  /\ creation.config_class = registry.accepted[t].config_class

\* "openai" was registered again with another adapter and another config
\* class, and an adapter was then created for it
C17_Witness ==
    /\ registry.accepted["openai"].count = 2
    /\ registry.accepted["openai"].replaced
    /\ creation.op = "create_provider"
    /\ creation.provider_type = "openai"
    /\ creation.provider_class = "DifyProvider"
    /\ creation.config_class = "DifyConfig"
    /\ creation.client

\* C18: a register call whose adapter class is no BaseModelProvider subclass,
\* or whose config class is no BaseProviderConfig subclass, raises and leaves
\* both mappings as they were.
C18_RegisterRejects ==
    [][(/\ creation'.op = "register"
        /\ \/ creation'.provider_class \notin ProviderClasses
           \/ creation'.config_class \notin ConfigClasses) =>
            /\ creation'.result = "ValueError"
            /\ registry' = registry]_vars

\* a register call with a real adapter class and a bad config class was
\* rejected while another pair was registered for the tag
C18_Witness ==
    /\ creation.op = "register"
    /\ creation.provider_type = "openai"
    /\ creation.provider_class = "OpenAIProvider"
    /\ creation.config_class = OtherClass
    /\ creation.result = "ValueError"
    /\ GetProviderClass("openai") = "DifyProvider"
    /\ GetConfigClass("openai") = "DifyConfig"

\* C19: what get_metrics returned stays as it was returned through every later
\* chat, chat_stream and reset_metrics on the adapter, for as long as the
\* caller does not write to it; and when the caller writes to it, the
\* adapter's own metrics, which later get_metrics calls copy, do not change.
C19_MetricsSnapshot ==
    [][/\ (snapshot'.held /\ ~snapshot'.modified) => Held' = snapshot'.taken
       /\ (snapshot.held /\ ~snapshot.modified /\ snapshot'.modified) =>
              metrics' = metrics]_vars

\* a snapshot taken after one success is still held, and was written to, after
\* the adapter was reset and then had another failure and another success
C19_Witness ==
    /\ snapshot.held
    /\ snapshot.modified
    /\ snapshot.resets = 1
    /\ snapshot.taken.success_count = 1
    /\ snapshot.taken.error_count = 0
    /\ metrics.success_count = 1
    /\ metrics.error_count = 1

RECURSIVE Sum(_)
Sum(seq) == IF seq = <<>> THEN 0 ELSE Head(seq) + Sum(Tail(seq))

C21_TotalTokens ==
    [][LET grown == metrics'.total_tokens - metrics.total_tokens IN
       /\ grown # 0 =>
             \E t \in Tasks : task[t].pc = "call_api" /\ task'[t].pc = "returned"
       /\ \A t \in Tasks :
             (task[t].pc = "call_api" /\ task'[t].pc = "returned") =>
                 grown = task'[t].response[1].total_tokens]_vars

\* a chat that failed once and then succeeded added the 7 tokens of its
\* response to the 7 counted before
C21_Witness ==
    \E t \in Tasks :
        /\ IsChat(t) /\ task[t].pc = "returned"
        /\ task[t].failed >= 1
        /\ task[t].response[1].total_tokens = 7
        /\ metrics.total_tokens = 14

Finished(t) == task[t].pc \in {"returned", "raised", "exhausted", "closed"}

\* how many of the tasks in S satisfy the test, and the failed chat attempts
\* of the tasks in S
Made(S) == Cardinality({t \in S : task[t].op # "none"})
Succeeded(S) == Cardinality({t \in S : task[t].pc \in {"returned", "exhausted"}})
FailedStreams(S) == Cardinality({t \in S : IsStream(t) /\ task[t].pc = "raised"})
RECURSIVE FailedAttempts(_)
FailedAttempts(S) ==
    IF S = {} THEN 0
    ELSE LET t == CHOOSE u \in S : TRUE
         IN  (IF IsChat(t) THEN task[t].failed ELSE 0) + FailedAttempts(S \ {t})

\* C22: once all the calls running concurrently on a new adapter have
\* finished, request_count is the number of calls, success_count the number
\* of calls that succeeded, and error_count the number of failed chat
\* attempts plus the number of failed streams: no update was lost.
C22_NoLostUpdate ==
    (\A t \in DOMAIN task : Finished(t)) =>
        /\ metrics.request_count = Made(DOMAIN task)
        /\ metrics.success_count = Succeeded(DOMAIN task)
        /\ metrics.error_count = FailedAttempts(DOMAIN task) + FailedStreams(DOMAIN task)

\* a chat that failed once and then succeeded, and a stream that failed after
\* a fragment, ran at the same time and have both finished
C22_Witness ==
    /\ IsChat(1) /\ task[1].pc = "returned" /\ task[1].failed = 1
    /\ IsStream(2) /\ task[2].pc = "raised" /\ Len(task[2].yielded) = 1
    /\ task[1].start_time < task[2].end_time
    /\ task[2].start_time < task[1].end_time
    /\ metrics.request_count = 2
    /\ metrics.error_count = 2

\* C23: while one chat call is in its backoff wait, every other call can take
\* its next step: a call can be started, an upstream call can complete, a
\* stream can go on and end.
C23_BackoffBlocksNobody ==
    \A t \in DOMAIN task : \A u \in DOMAIN task \ {t} :
        task[t].pc = "sleep" =>
            /\ task[u].pc = "idle" => ENABLED ChatStart(u) /\ ENABLED StreamStart(u)
            /\ task[u].pc = "call_api" => ENABLED ChatAttemptOk(u)
            /\ task[u].pc = "iterating" => ENABLED StreamEnd(u)
            /\ task[u].pc = "yielded" => ENABLED StreamResume(u)

\* a chat is still in a backoff wait during which another chat was started,
\* took a second and returned its response
C23_Witness ==
    /\ task[1].pc = "sleep"
    /\ now < task[1].sleep_until
    /\ IsChat(2) /\ task[2].pc = "returned"
    /\ task[2].start_time >= task[1].failed_at
    /\ task[2].end_time > task[2].start_time

\* a data line that cannot be parsed, or a line without the "data: " prefix
IgnoredLine(e) == e.type \in {"bad_json", "no_prefix"}

\* the well-formed event lines that carry a fragment
FragmentLines(kind) ==
    {ContentEvent(kind), TerminalEvent(kind)}
        \cup (IF kind = "dify" THEN {Event("message", "a", None)} ELSE {})

\* C24: for the Claude and Dify adapters a line that cannot be parsed, or that
\* has no "data: " prefix, neither raises nor ends the stream, and the
\* well-formed event lines around it are yielded all the same: the caller has
\* received one fragment for each of them.
C24_BadLinesSkipped ==
    \A t \in Tasks :
        (/\ IsStream(t) /\ provider \in {"claude", "dify"}
         /\ \E i \in 1..Len(task[t].events) : IgnoredLine(task[t].events[i])
         /\ \A i \in 1..Len(task[t].events) : task[t].events[i].type # "done") =>
            /\ task[t].pc = "raised" => task[t].last_error = "transport"
            /\ task[t].pc \in {"iterating", "yielded", "exhausted"} =>
                  Len(task[t].yielded) =
                     Cardinality({i \in 1..Len(task[t].events) :
                                     task[t].events[i] \in FragmentLines(provider)})

\* the part of C24 about the bad line itself: it raises nothing, and the loop
\* goes on to the lines after it
C24_BadLinesHarmless ==
    \A t \in Tasks :
        (/\ IsStream(t) /\ provider \in {"claude", "dify"}
         /\ \A i \in 1..Len(task[t].events) : task[t].events[i].type # "done") =>
            /\ task[t].pc = "raised" => task[t].last_error = "transport"
            /\ (task[t].events # <<>> /\ IgnoredLine(task[t].events[Len(task[t].events)])
                    /\ task[t].last_error = None) =>
                  task[t].pc \in {"iterating", "exhausted"}

\* C25: on both call paths of the Dify adapter, a configured conversation id
\* is the conversation_id of the payload that is sent, whatever the request
\* and its extra_params hold; with none configured, the adapter puts no
\* conversation_id among the fields it sets.
C25_DifyConversationId ==
    (wire.built /\ provider = "dify") =>
        /\ wire.conversation_id # None =>
              /\ "conversation_id" \in DOMAIN wire.payload
              /\ wire.payload["conversation_id"] = wire.conversation_id
        /\ wire.conversation_id = None => "conversation_id" \notin DOMAIN wire.named

\* the same for the fields the adapter sets, before extra_params is merged in
C25_DifyNamedConversationId ==
    (wire.built /\ provider = "dify") =>
        /\ wire.conversation_id # None =>
              /\ "conversation_id" \in DOMAIN wire.named
              /\ wire.named["conversation_id"] = wire.conversation_id
        /\ wire.conversation_id = None => "conversation_id" \notin DOMAIN wire.named

\* C26: chat retries only transport/upstream errors; an attempt that fails
\* with a validation error ends the call at once: the error is raised to the
\* caller, no backoff wait is started and no further attempt is made.
C26_ValidationErrorFatal ==
    [][\A t \in Tasks :
         (/\ task[t].op = "chat" /\ task[t].pc = "call_api"
          /\ task'[t].failed = task[t].failed + 1
          /\ task'[t].last_error = "validation")
         => (/\ task'[t].pc = "raised"
             /\ task'[t].sleeps = task[t].sleeps)]_vars

\* what holds instead: a failed attempt is retried whenever attempts
\* remain, whatever the kind of its error
C26_EveryErrorRetried ==
    [][\A t \in Tasks :
         (/\ task[t].op = "chat" /\ task[t].pc = "call_api"
          /\ task'[t].failed = task[t].failed + 1)
         => IF AttemptsRemain(task[t].attempt)
            THEN /\ task'[t].pc = "sleep"
                 /\ task'[t].sleeps = Append(task[t].sleeps, BackoffDelay(task[t].attempt))
            ELSE task'[t].pc = "raised"]_vars

\* C27: one attempt of _call_api issues exactly one upstream request, the
\* network client retrying nothing by itself, so that a chat call has issued
\* as many upstream requests as it made attempts, and a call that failed on
\* every attempt exactly max_retries + 1.
C27_OneRequestPerAttempt ==
    \A t \in Tasks :
        (task[t].op = "chat" /\ task[t].pc \in {"returned", "raised"})
        => /\ task[t].requests = task[t].calls
           /\ task[t].pc = "raised" => task[t].requests = config.max_retries + 1

\* what holds instead: the adapters whose client is a plain httpx client issue
\* one request per attempt; the OpenAI adapter up to max_retries + 1 per
\* attempt, and exactly (max_retries + 1)^2 when every request fails in transport
C27_RequestsPerAttempt ==
    \A t \in Tasks :
        (task[t].op = "chat" /\ task[t].pc \in {"returned", "raised"})
        => /\ provider # "openai" => task[t].requests = task[t].calls
           /\ task[t].requests >= task[t].calls
           /\ task[t].requests <= task[t].calls * (config.max_retries + 1)

\* a Claude or Dify call that failed on every attempt
C27_PlainClientCase ==
    \E t \in Tasks :
        /\ provider \in {"claude", "dify"} /\ config.max_retries = 2
        /\ task[t].op = "chat" /\ task[t].pc = "raised"
        /\ task[t].requests = 3

\* the reason strings of the unified format
CanonicalReasons == {"stop", "length", "content_filter", "tool_calls", "function_call"}

\* C28: the finish_reason of a unified response is always one of the
\* canonical reason strings, never a provider-specific string passed through,
\* and is "stop" for a response the upstream completed normally.
C28_CanonicalFinishReason ==
    (wire.built /\ wire.response # <<>> /\ wire.response[1].raised = None) =>
        /\ wire.response[1].finish_reason \in CanonicalReasons
        /\ wire.upstream[1] = NaturalEnd(provider) => wire.response[1].finish_reason = "stop"

\* what holds instead: the OpenAI and Dify adapters return canonical reasons,
\* and "stop" for a natural end; the Claude adapter returns Anthropic's
\* stop_reason as it is, and "stop" only when the upstream gave none
C28_FinishReasonAsBuilt ==
    (wire.built /\ wire.response # <<>> /\ wire.response[1].raised = None) =>
        /\ provider \in {"openai", "dify"} =>
              /\ wire.response[1].finish_reason \in CanonicalReasons
              /\ wire.upstream[1] = NaturalEnd(provider) =>
                    wire.response[1].finish_reason = "stop"
        /\ provider = "claude" =>
              wire.response[1].finish_reason =
                 IF wire.upstream[1] = Absent THEN "stop" ELSE wire.upstream[1]

\* an OpenAI response that completed normally was received
C28_OpenAICase ==
    /\ provider = "openai" /\ wire.built /\ wire.response # <<>>
    /\ wire.upstream[1] = "stop" /\ wire.response[1].finish_reason = "stop"

\* C29: in every reachable state of an adapter success_count <= request_count,
\* whatever the interleaving of chat, chat_stream, get_metrics and
\* reset_metrics, a reset_metrics during a call in flight included.
C29_SuccessesWithinRequests == metrics.success_count <= metrics.request_count

\* what holds instead: on an adapter whose metrics are never reset, every
\* success and every call still in flight has been counted as a request
C29_WithinRequestsWithoutReset ==
    metrics.success_count + Cardinality({t \in DOMAIN task : InFlight(t)})
        <= metrics.request_count

\* the success rate reported from the counters exceeds 100 percent
C29_RateAboveAll ==
    /\ metrics.success_count > metrics.request_count
    /\ metrics.success_count > 1

\* the pair each adapter module registers when it is imported
ImportPair(provider_type) ==
    CASE provider_type = "openai" -> <<"OpenAIProvider", "OpenAIConfig">>
      [] provider_type = "claude" -> <<"ClaudeProvider", "ClaudeConfig">>
      [] provider_type = "dify" -> <<"DifyProvider", "DifyConfig">>

\* create_provider was called for a type that has its import-time pair, with
\* raw configuration that passes the schema of the type's config class
CreatedFromValidConfig(provider_type) ==
    /\ creation.op = "create_provider"
    /\ creation.provider_type = provider_type
    /\ <<creation.provider_class, creation.config_class>> = ImportPair(provider_type)
    /\ SchemaAccepts(creation.config_class, creation.config_data)

\* C30: for each of the types OpenAI, Claude and Dify as registered at import,
\* create_provider with raw configuration that passes the type's schema
\* returns a usable adapter: _validate_config and _initialize_client ran to
\* completion and the adapter holds an open client.
C30_CreateReturnsUsableAdapter ==
    \A provider_type \in {"openai", "claude", "dify"} :
        CreatedFromValidConfig(provider_type) =>
            /\ creation.result = None
            /\ creation.steps = CreationSteps
            /\ creation.client

\* what holds instead: the OpenAI adapter is always created; the Dify adapter
\* unless the configured base_url is empty; the Claude adapter never, its
\* _validate_config raising an AttributeError
C30_CreateAsBuilt ==
    /\ CreatedFromValidConfig("openai") => creation.result = None /\ creation.client
    /\ CreatedFromValidConfig("dify") =>
          IF "base_url" \in DOMAIN creation.config_data
             /\ creation.config_data["base_url"] = ""
          THEN creation.result = "ValueError" /\ ~creation.client
          ELSE creation.result = None /\ creation.client
    /\ CreatedFromValidConfig("claude") =>
          /\ creation.result = "AttributeError"
          /\ creation.steps = <<"config", "_validate_config">>
          /\ ~creation.client

\* lookups and create_provider, successful or failed, never modify the
\* registry's mappings
C30_CreateLeavesRegistry ==
    [][creation'.op = "create_provider" => registry' = registry]_vars

\* the Claude adapter was asked for with a key its schema accepts
C30_ClaudeCase == CreatedFromValidConfig("claude")


============================================================================
